---- MODULE Spec2Model ----
(***************************************************************************)
(* Feishu agent-card renderer: the coalescing card update scheduler        *)
(* (createCardUpdateController), the run tracker (AgentRunTracker) and the *)
(* renderer controller (createAgentCardRenderer).                          *)
(*                                                                         *)
(* The scheduler is modelled at the granularity of JavaScript's            *)
(* run-to-completion steps: every `await` ends a step, and the             *)
(* continuation after it is a step of its own.  Between two steps any      *)
(* caller may run.  The clock is Date.now() in milliseconds.               *)
(*                                                                         *)
(*   Spec, SpecSched, SpecLive  the scheduler under arbitrary callers      *)
(*   TrackerSpec                the tracker under arbitrary calls          *)
(*   CtlSpec                    one run of the controller, with its        *)
(*                              tracker and its scheduler                  *)
(***************************************************************************)
EXTENDS Integers, Sequences, FiniteSets, TLC

\* ------------------------------------------------------------------ bounds
\* Date.now() when the scheduler is constructed (any real clock is >= 350).
StartTime == 1000
\* The clock is observed up to this reading.
MaxTime == 1400
\* Granularity of the modelled clock, in ms.
TickMs == 50
\* Number of schedule() calls made on one scheduler.
MaxSched == 3
\* Number of flush() calls made on one scheduler.
MaxFlush == 2
\* Number of deliver calls of one run.
MaxDeliver == 2
\* Granularity of the clock in a run of the controller, in ms.
CtlTickMs == 400

\* ------------------------------------------------------- program constants
MIN_INTERVAL_MS == 350

\* `pending = null` / `card = null`
Null == 0

Max(a, b) == IF a >= b THEN a ELSE b

\* ------------------------------------------------------------------ text
(* A string is the sequence of its characters (one-character strings), so   *)
(* that trimming, prefix tests and concatenation are computed.  Literal     *)
(* fragments the code emits are kept as single tokens; the code's Chinese   *)
(* literals are written in ASCII.                                           *)
IsSpace(c) == c \in {" ", "\n"}

RECURSIVE TrimStart(_)
TrimStart(s) ==
  IF s = <<>> THEN <<>>
  ELSE IF IsSpace(Head(s)) THEN TrimStart(Tail(s)) ELSE s

RECURSIVE TrimEnd(_)
TrimEnd(s) ==
  IF s = <<>> THEN <<>>
  ELSE IF IsSpace(s[Len(s)]) THEN TrimEnd(SubSeq(s, 1, Len(s) - 1)) ELSE s

\* String.prototype.trim
Trim(s) == TrimEnd(TrimStart(s))

\* value.replace(/\s+/g, " "): every run of whitespace becomes one space.
RECURSIVE CollapseSpaces(_)
CollapseSpaces(s) ==
  IF s = <<>> THEN <<>>
  ELSE IF IsSpace(Head(s))
       THEN <<" ">> \o CollapseSpaces(TrimStart(s))
       ELSE <<Head(s)>> \o CollapseSpaces(Tail(s))

normalizeWhitespace(value) == Trim(CollapseSpaces(value))

\* parts.join(sep)
RECURSIVE Join(_, _)
Join(parts, sep) ==
  IF parts = <<>> THEN <<>>
  ELSE IF Len(parts) = 1 THEN parts[1]
  ELSE parts[1] \o sep \o Join(Tail(parts), sep)

\* ------------------------------------------------------- agent-card-view.ts
\* `undefined` for an optional string (a tool-use id; falsy like "").
NoId == ""
\* `undefined` for an optional number (startedAt, completedAt, durationMs).
NoNum == -1

\* formatToolCall; "call" and "tool" stand for the Chinese words of the label.
formatToolCall(toolName) == <<"call '", toolName, "' tool">>

(* seconds.toFixed(1) of Math.max(durationMs, 0) / 1000, for durations that *)
(* are not half-way between two tenths.                                     *)
ToFixed1(durationMs) ==
  LET tenths == (Max(durationMs, 0) + 50) \div 100
  IN ToString(tenths \div 10) \o "." \o ToString(tenths % 10)

\* buildToolCallContent: the label, with the elapsed-seconds tag when a duration is known.
buildToolCallContent(toolName, durationMs) ==
  LET base == formatToolCall(toolName)
      durationTag == <<"<text_tag color='turquoise'>took ", ToFixed1(durationMs), " s</text_tag>">>
  IN IF durationMs # NoNum THEN base \o <<" ">> \o durationTag ELSE base

\* resolveDurationMs; `t` is Date.now().
resolveDurationMs(reportedDurationMs, startedAt, completedAt, t) ==
  IF reportedDurationMs # NoNum THEN reportedDurationMs
  ELSE IF startedAt # NoNum
       THEN Max(0, (IF completedAt # NoNum THEN completedAt ELSE t) - startedAt)
       ELSE NoNum

TextEntry(kind, content) ==
  [kind |-> kind, content |-> content, toolUseId |-> NoId, toolName |-> "", durationMs |-> NoNum]

\* collectDisplayChunks, lines 100-134: one content part of an assistant message.
AssistantPart(acc, part) ==
  IF part.type = "text"
  THEN IF normalizeWhitespace(part.text) # <<>>
       THEN [acc EXCEPT !.textParts = Append(@, Trim(part.text)),
                        !.timeline = Append(@, TextEntry("text", Trim(part.text)))]
       ELSE acc
  ELSE IF part.type = "thinking"
  THEN IF normalizeWhitespace(part.text) # <<>>
       THEN [acc EXCEPT !.timeline = Append(@, TextEntry("thinking", Trim(part.text)))]
       ELSE acc
  ELSE IF part.type = "tool-call"
  THEN LET toolName == IF part.toolName # "" THEN part.toolName ELSE "unknown-tool"
           entry == [kind |-> "tool-call", content |-> buildToolCallContent(toolName, NoNum),
                     toolUseId |-> part.toolUseId, toolName |-> toolName,
                     durationMs |-> NoNum]
           meta == [index |-> Len(acc.timeline) + 1, toolName |-> toolName,
                    startedAt |-> part.startedAt]
       IN [acc EXCEPT
             !.toolEntryMap =
                IF part.toolUseId # NoId
                THEN [k \in DOMAIN @ \cup {part.toolUseId} |->
                        IF k = part.toolUseId THEN meta ELSE @[k]]
                ELSE @,
             !.timeline = Append(@, entry)]
  ELSE acc

\* collectDisplayChunks, lines 138-161: one part of a tool message.
ToolPart(acc, part, t) ==
  IF part.type # "tool-result" \/ part.toolUseId = NoId
       \/ part.toolUseId \notin DOMAIN acc.toolEntryMap
  THEN acc
  ELSE LET entryMeta == acc.toolEntryMap[part.toolUseId]
           durationMs == resolveDurationMs(part.durationMs, entryMeta.startedAt,
                                           part.completedAt, t)
       IN [acc EXCEPT
             !.timeline[entryMeta.index].durationMs = durationMs,
             !.timeline[entryMeta.index].content =
                buildToolCallContent(entryMeta.toolName, durationMs)]

RECURSIVE FoldParts(_, _, _, _)
FoldParts(acc, role, parts, t) ==
  IF parts = <<>> THEN acc
  ELSE FoldParts(IF role = "assistant" THEN AssistantPart(acc, Head(parts))
                 ELSE ToolPart(acc, Head(parts), t),
                 role, Tail(parts), t)

RECURSIVE FoldMessages(_, _, _)
FoldMessages(acc, messages, t) ==
  IF messages = <<>> THEN acc
  ELSE LET message == Head(messages)
       IN FoldMessages(IF message.role \in {"assistant", "tool"}
                       THEN FoldParts(acc, message.role, message.content, t)
                       ELSE acc,
                       Tail(messages), t)

\* collectDisplayChunks, line 165: the returned value.
ChunksOf(acc) ==
  [timeline |-> acc.timeline, finalText |-> Trim(Join(acc.textParts, <<"\n", "\n">>))]

(* collectDisplayChunks: the timeline entries and the final text of a batch *)
(* of messages; the toolUseId -> entry map lives for this one call.         *)
collectDisplayChunks(messages, t) ==
  ChunksOf(FoldMessages([timeline |-> <<>>, textParts |-> <<>>, toolEntryMap |-> <<>>],
                        messages, t))

\* A dedup key made of kind and content for every entry, tool calls included.
getTimelineEntryKey_ByContent(entry) ==
  [kind |-> entry.kind, content |-> entry.content]

\* AgentRunTracker.getTimelineEntryKey
getTimelineEntryKey(entry) ==
  IF entry.kind = "tool-call" /\ entry.toolUseId # NoId
  THEN [tool |-> entry.toolUseId]
  ELSE [kind |-> entry.kind, content |-> entry.content]

\* this.timeline.findIndex((item) => item.toolUseId === toolUseId); 0 for -1.
FindIndex(timeline, toolUseId) ==
  IF \E i \in DOMAIN timeline : timeline[i].toolUseId = toolUseId
  THEN CHOOSE i \in DOMAIN timeline :
         /\ timeline[i].toolUseId = toolUseId
         /\ \A j \in DOMAIN timeline : timeline[j].toolUseId = toolUseId => i <= j
  ELSE 0

\* A tracker that pushes every projected entry without consulting `seen`.
AppendEntry_NoDedup(tr, entry) ==
  [tr EXCEPT !.seen = @ \cup {getTimelineEntryKey(entry)}, !.timeline = Append(@, entry)]

\* appendMessages, lines 206-221: one projected entry.
AppendEntry(tr, entry) ==
  LET key == getTimelineEntryKey(entry)
  IN IF entry.content # <<>> /\ key \notin tr.seen
     THEN [tr EXCEPT !.seen = @ \cup {key}, !.timeline = Append(@, entry)]
     ELSE IF entry.kind = "tool-call" /\ entry.toolUseId # NoId /\ entry.content # <<>>
               /\ FindIndex(tr.timeline, entry.toolUseId) # 0
          THEN [tr EXCEPT !.timeline[FindIndex(tr.timeline, entry.toolUseId)] = entry]
          ELSE tr

RECURSIVE FoldEntries(_, _)
FoldEntries(tr, entries) ==
  IF entries = <<>> THEN tr
  ELSE FoldEntries(AppendEntry(tr, Head(entries)), Tail(entries))

\* appendMessages, lines 222-224: `if (finalText) this.draftAnswer = finalText`.
WithFinalText(tr, finalText) ==
  IF finalText # <<>> THEN [tr EXCEPT !.draftAnswer = finalText] ELSE tr

\* appendMessages, lines 206-224: the projected chunks merged into the tracker.
MergeChunks(tr, chunks) == WithFinalText(FoldEntries(tr, chunks.timeline), chunks.finalText)

\* AgentRunTracker.appendMessages
appendMessages(tr, messages, t) == MergeChunks(tr, collectDisplayChunks(messages, t))

\* A setStatus that refuses to leave a terminal status.
setStatus_KeepTerminal(tr, status) ==
  IF tr.status \in {"completed", "canceled", "error"} THEN tr
  ELSE [tr EXCEPT !.status = status]

\* AgentRunTracker.setStatus
setStatus(tr, status) == [tr EXCEPT !.status = status]

\* AgentRunTracker.setDraftAnswer
setDraftAnswer(tr, answer) == [tr EXCEPT !.draftAnswer = answer]

\* A new AgentRunTracker (lines 184-187), and its state after reset().
NewTracker ==
  [status |-> "thinking", timeline |-> <<>>, seen |-> {}, draftAnswer |-> <<>>]

reset(tr) == NewTracker

\* AgentRunStatus
AgentRunStatus ==
  {"idle", "thinking", "tool-calling", "waiting-tool-result", "completed", "canceled", "error"}

\* AgentRunTracker.normalizeText
normalizeText(value) == Trim(CollapseSpaces(value))

\* A terminal test that also takes ToolCalling for terminal.
isTerminalStatus_WithToolCalling(status) ==
  status \in {"completed", "canceled", "error", "tool-calling"}

\* isTerminalStatus
isTerminalStatus(status) == status \in {"completed", "canceled", "error"}

\* statusTitles; the Chinese titles are written in English.
statusTitles ==
  [status \in AgentRunStatus |->
     CASE status = "idle" -> "Waiting for instructions"
       [] status = "thinking" -> "Thinking"
       [] status = "tool-calling" -> "Calling tool"
       [] status = "waiting-tool-result" -> "Waiting for tool result"
       [] status = "completed" -> "All done"
       [] status = "canceled" -> "Task canceled"
       [] status = "error" -> "Execution error"]

\* A filter that drops the entries of any kind that repeat the answer.
filterTimelineEntries_AnyKind(entries, answerText) ==
  IF answerText = <<>> \/ normalizeText(answerText) = <<>>
  THEN entries
  ELSE SelectSeq(entries,
                 LAMBDA entry : normalizeText(entry.content) # normalizeText(answerText))

\* AgentRunTracker.filterTimelineEntries; answerText <<>> is `undefined` or "".
filterTimelineEntries(entries, answerText) ==
  IF answerText = <<>> \/ normalizeText(answerText) = <<>>
  THEN entries
  ELSE SelectSeq(entries,
                 LAMBDA entry : \/ entry.kind # "text"
                                \/ normalizeText(entry.content) # normalizeText(answerText))

\* AgentRunTracker.formatTimelineEntry
formatTimelineEntry(entry) ==
  IF entry.content = <<>> THEN <<>>
  ELSE IF entry.kind = "thinking" THEN <<"*Thinking*: ">> \o entry.content
  ELSE entry.content

\* entries.map(formatTimelineEntry).filter(Boolean)
RECURSIVE FormatEntries(_)
FormatEntries(entries) ==
  IF entries = <<>> THEN <<>>
  ELSE LET line == formatTimelineEntry(Head(entries))
       IN (IF line # <<>> THEN <<line>> ELSE <<>>) \o FormatEntries(Tail(entries))

\* AgentRunTracker.buildRenderState; finalAnswer <<>> is `undefined`.
buildRenderState(tr, collapseTimeline) ==
  LET showFinalAnswer == isTerminalStatus(tr.status)
      finalAnswerText == Trim(tr.draftAnswer)
      filteredTimeline ==
        filterTimelineEntries(tr.timeline, IF showFinalAnswer THEN finalAnswerText ELSE <<>>)
      timelineMarkdown == Join(FormatEntries(filteredTimeline), <<"\n">>)
      hasTimeline == Len(filteredTimeline) > 0
  IN [status |-> tr.status,
      headline |-> statusTitles[tr.status],
      body |-> IF showFinalAnswer
               THEN IF finalAnswerText # <<>> THEN finalAnswerText
                    ELSE <<"No final reply yet">>
               ELSE IF timelineMarkdown # <<>> THEN timelineMarkdown
                    ELSE IF tr.draftAnswer # <<>> THEN tr.draftAnswer
                    ELSE <<"Thinking...">>,
      timeline |-> filteredTimeline,
      finalAnswer |-> IF showFinalAnswer THEN finalAnswerText ELSE <<>>,
      isTimelineCollapsed |-> collapseTimeline,
      timelineMarkdown |-> timelineMarkdown,
      showTimelinePanel |-> showFinalAnswer /\ hasTimeline]

\* buildLarkCard: the header template chosen for a status.
headerTemplate(status) ==
  CASE status = "completed" -> "green"
    [] status = "tool-calling" -> "wathet"
    [] status = "canceled" -> "orange"
    [] status = "error" -> "red"
    [] status = "thinking" -> "blue"
    [] OTHER -> "grey"

\* buildLarkCard: the header icon chosen for a status.
iconTemplate(status) ==
  CASE status = "completed" -> "succeed_filled"
    [] status = "tool-calling" -> "setting-inter_filled"
    [] status = "canceled" -> "ban_filled"
    [] status = "error" -> "error_filled"
    [] status = "thinking" -> "premium-gleam_filled"
    [] OTHER -> "info_filled"

\* buildLarkCard: the card document (schema and layout constants left out).
buildLarkCard(state) ==
  LET panel ==
        IF state.showTimelinePanel /\ Len(state.timeline) > 0
        THEN <<[tag |-> "collapsible_panel",
                expanded |-> ~state.isTimelineCollapsed,
                content |-> IF state.timelineMarkdown # <<>> THEN state.timelineMarkdown
                            ELSE <<"No process record yet">>]>>
        ELSE <<>>
      markdown == [tag |-> "markdown",
                   content |-> IF state.body # <<>> THEN state.body ELSE <<"Thinking...">>]
  IN [header |-> [template |-> headerTemplate(state.status),
                  title |-> state.headline,
                  icon |-> iconTemplate(state.status)],
      elements |-> Append(panel, markdown)]

\* ------------------------------------------------------- feishu-renderer.ts
\* next.startsWith(prev)
StartsWith(s, prefix) == Len(prefix) <= Len(s) /\ SubSeq(s, 1, Len(prefix)) = prefix

\* A merge that always concatenates.
mergeStreamText_Concat(prev, next) == prev \o next

\* mergeStreamText
mergeStreamText(prev, next) ==
  IF prev = <<>> THEN next
  ELSE IF next = <<>> THEN prev
  ELSE IF StartsWith(next, prev) THEN next
  ELSE IF StartsWith(prev, next) THEN prev
  ELSE prev \o next

Letters ==
  {"a", "b", "c", "d", "e", "f", "g", "h", "i", "j", "k", "l", "m",
   "n", "o", "p", "q", "r", "s", "t", "u", "v", "w", "x", "y", "z",
   "A", "B", "C", "D", "E", "F", "G", "H", "I", "J", "K", "L", "M",
   "N", "O", "P", "Q", "R", "S", "T", "U", "V", "W", "X", "Y", "Z"}
Digits == {"0", "1", "2", "3", "4", "5", "6", "7", "8", "9"}
UpperCase ==
  <<"A", "B", "C", "D", "E", "F", "G", "H", "I", "J", "K", "L", "M",
    "N", "O", "P", "Q", "R", "S", "T", "U", "V", "W", "X", "Y", "Z">>
LowerCase ==
  <<"a", "b", "c", "d", "e", "f", "g", "h", "i", "j", "k", "l", "m",
    "n", "o", "p", "q", "r", "s", "t", "u", "v", "w", "x", "y", "z">>

\* A token standing for one Extended_Pictographic code point (an emoji).
Pictographs == {"<emoji>"}

\* [A-Za-z]
IsLetter(c) == c \in Letters
\* [A-Za-z0-9_ ]
IsNameChar(c) == c \in Letters \cup Digits \cup {"_", " "}
\* [\p{Extended_Pictographic}\uFE0F\u200D\s]
IsPrefixChar(c) == c \in Pictographs \/ IsSpace(c)

\* String.prototype.toLowerCase, per character
ToLowerChar(c) ==
  IF \E k \in DOMAIN UpperCase : UpperCase[k] = c
  THEN LowerCase[CHOOSE k \in DOMAIN UpperCase : UpperCase[k] = c]
  ELSE c

\* The string without its leading run of [-\s] characters.
RECURSIVE SkipSeparators(_)
SkipSeparators(s) ==
  IF s # <<>> /\ (IsSpace(Head(s)) \/ Head(s) = "-") THEN SkipSeparators(Tail(s)) ELSE s

\* rawToolName.toLowerCase().replace(/[-\s]+/g, "_")
RECURSIVE NormalizeToolName(_)
NormalizeToolName(s) ==
  IF s = <<>> THEN <<>>
  ELSE IF IsSpace(Head(s)) \/ Head(s) = "-"
       THEN <<"_">> \o NormalizeToolName(SkipSeparators(s))
       ELSE <<ToLowerChar(Head(s))>> \o NormalizeToolName(Tail(s))

\* The characters of a string as one token (a key of TOOL_NAME_LABELS).
RECURSIVE Str(_)
Str(s) == IF s = <<>> THEN "" ELSE Head(s) \o Str(Tail(s))

\* text.split(/\r?\n/)
RECURSIVE SplitLines(_)
SplitLines(text) ==
  IF \E k \in DOMAIN text : text[k] = "\n"
  THEN LET k == CHOOSE i \in DOMAIN text :
                  text[i] = "\n" /\ \A j \in 1 .. i - 1 : text[j] # "\n"
       IN <<SubSeq(text, 1, k - 1)>> \o SplitLines(SubSeq(text, k + 1, Len(text)))
  ELSE <<text>>

\* TOOL_NAME_LABELS; the Chinese labels are written in English.
TOOL_NAME_LABELS ==
  [name \in {"read", "write", "edit", "exec", "process", "web_search", "web_fetch",
             "browser", "message", "sessions_list", "sessions_send", "sessions_spawn",
             "session_status", "cron", "feishu_doc_read", "feishu_doc_write",
             "feishu_doc_append", "feishu_doc_list_blocks", "feishu_doc_update",
             "feishu_doc_delete_block", "feishu_folder_list", "feishu_doc_create",
             "memory_search", "memory_get", "tts", "canvas", "nodes", "gateway",
             "agents_list"} |-> "label(" \o name \o ")"]

\* The number of leading characters of `line` the prefix class matches.
RECURSIVE PrefixLen(_)
PrefixLen(line) ==
  IF line # <<>> /\ IsPrefixChar(Head(line)) THEN 1 + PrefixLen(Tail(line)) ELSE 0

\* The position of the first ":" of `line` at or after position i (0: none).
FirstColon(line, i) ==
  IF \E k \in i .. Len(line) : line[k] = ":"
  THEN CHOOSE k \in i .. Len(line) :
         line[k] = ":" /\ \A j \in i .. k - 1 : line[j] # ":"
  ELSE 0

(* line.match(toolRegex): optional whitespace and prefix-class characters,   *)
(* the captured name [A-Za-z][A-Za-z0-9_ ]{0,60}, optional whitespace, a    *)
(* colon, optional whitespace and the captured rest of the line.  The name  *)
(* starts at the first character behind the prefix and runs up to the       *)
(* first colon; it captures at most 61 characters, whitespace filling the   *)
(* rest.  The result is [matched, name, meta].                              *)
MatchToolLine(line) ==
  LET i == PrefixLen(line) + 1
      j == FirstColon(line, i)
  IN IF /\ i <= Len(line)
        /\ IsLetter(line[i])
        /\ j # 0
        /\ \A k \in i + 1 .. j - 1 : IsNameChar(line[k])
        /\ \A k \in i + 61 .. j - 1 : IsSpace(line[k])
     THEN [matched |-> TRUE,
           name |-> SubSeq(line, i, IF j - 1 < i + 60 THEN j - 1 ELSE i + 60),
           meta |-> SubSeq(line, j + 1, Len(line))]
     ELSE [matched |-> FALSE, name |-> <<>>, meta |-> <<>>]

\* A tool line that shows the raw tool name, whatever the label table holds.
ToolLine_RawName(match) ==
  LET rawToolName == Trim(match.name)
      header == <<"call [">> \o rawToolName \o <<"] tool:">>
      meta == Trim(match.meta)
  IN IF meta # <<>> THEN header \o <<" ">> \o meta ELSE header

\* splitToolSummaryLines, lines 87-100: the tool line made of a matching line.
ToolLine(match) ==
  LET rawToolName == Trim(match.name)
      normalized == Str(NormalizeToolName(rawToolName))
      label == IF normalized \in DOMAIN TOOL_NAME_LABELS
               THEN <<TOOL_NAME_LABELS[normalized]>>
               ELSE rawToolName
      header == <<"call [">> \o label \o <<"] tool:">>
      meta == Trim(match.meta)
  IN IF meta # <<>> THEN header \o <<" ">> \o meta ELSE header

\* splitToolSummaryLines, lines 84-102: the lines sorted into tool lines and others.
RECURSIVE SortLines(_)
SortLines(lines) ==
  IF lines = <<>> THEN [toolLines |-> <<>>, otherLines |-> <<>>]
  ELSE LET rawLine == Head(lines)
           line == Trim(rawLine)
           rest == SortLines(Tail(lines))
       IN IF line # <<>> /\ MatchToolLine(line).matched
          THEN [rest EXCEPT !.toolLines = <<ToolLine(MatchToolLine(line))>> \o @]
          ELSE [rest EXCEPT !.otherLines = <<rawLine>> \o @]

\* splitToolSummaryLines, lines 104-109: the returned value.
SplitResult(toolLines, remainingText) ==
  [toolLines |-> toolLines,
   remainingText |-> IF toolLines # <<>> /\ remainingText # <<>>
                     THEN <<"\n", "\n">> \o remainingText
                     ELSE remainingText]

\* splitToolSummaryLines, lines 104-109, of the sorted lines.
SplitSorted(sorted) ==
  SplitResult(sorted.toolLines, Trim(Join(sorted.otherLines, <<"\n">>)))

\* splitToolSummaryLines
splitToolSummaryLines(text) == SplitSorted(SortLines(SplitLines(text)))

\* inferStatusFromMessages; "" is `null`.
inferStatusFromMessages(messages) ==
  LET Saw(type) ==
        \E m \in DOMAIN messages :
          /\ messages[m].role = "assistant"
          /\ \E p \in DOMAIN messages[m].content : messages[m].content[p].type = type
  IN IF Saw("tool-call") THEN "tool-calling"
     ELSE IF Saw("thinking") THEN "thinking"
     ELSE ""

\* An assistant branch that appends every streamed text to the buffer.
mergeAssistantText_Append(prev, text) == prev \o text

(* applyVerboseEvent, lines 193-200: the streamed text merged into          *)
(* assistantBuffer.text = prev.                                             *)
mergeAssistantText(prev, text) ==
  IF StartsWith(text, prev) THEN text
  ELSE IF StartsWith(prev, text) THEN prev
  ELSE prev \o text

(* applyVerboseEvent on the tracker `tr` and assistantBuffer.text `text`, at *)
(* Date.now() = t.  An event is [stream, phase, name, toolCallId, text,     *)
(* durationMs, isError, error]; isError is "true", "false" or "" (absent).  *)
applyVerboseEvent(tr, text, evt, t) ==
  IF evt.stream = "assistant"
  THEN IF evt.text # <<>>
       THEN LET merged == mergeAssistantText(text, evt.text)
            IN [tracker |-> setDraftAnswer(setStatus(tr, "thinking"), merged),
                text |-> merged]
       ELSE [tracker |-> tr, text |-> text]
  ELSE IF evt.stream = "tool"
  THEN IF evt.phase = "start"
       THEN [tracker |->
               appendMessages(setStatus(tr, "tool-calling"),
                              <<[role |-> "assistant",
                                 content |-> <<[type |-> "tool-call", toolName |-> evt.name,
                                                toolUseId |-> evt.toolCallId,
                                                startedAt |-> t]>>]>>, t),
             text |-> text]
       ELSE IF evt.phase \in {"end", "result", "output", "error"}
       THEN LET isError == IF evt.isError # "" THEN evt.isError = "true"
                           ELSE evt.phase = "error"
                appended ==
                  appendMessages(tr,
                                 <<[role |-> "tool", toolUseId |-> evt.toolCallId,
                                    content |-> <<[type |-> "tool-result",
                                                   toolUseId |-> evt.toolCallId,
                                                   completedAt |-> t,
                                                   durationMs |-> evt.durationMs]>>]>>, t)
            IN [tracker |-> setStatus(appended,
                                      IF isError THEN "error" ELSE "waiting-tool-result"),
                text |-> text]
       ELSE [tracker |-> setStatus(tr, "tool-calling"), text |-> text]
  ELSE IF evt.stream = "lifecycle"
  THEN IF evt.phase = "start"
       THEN [tracker |-> setStatus(tr, "thinking"), text |-> text]
       ELSE IF evt.phase = "error"
       THEN [tracker |-> setDraftAnswer(setStatus(tr, "error"),
                                        IF evt.error # <<>> THEN evt.error
                                        ELSE <<"Execution error">>),
             text |-> text]
       ELSE [tracker |-> tr, text |-> text]
  ELSE [tracker |-> tr, text |-> text]

\* deliver, lines 384-386: the events of a payload applied in order.
RECURSIVE ApplyEvents(_, _, _, _)
ApplyEvents(tr, text, events, t) ==
  IF events = <<>> THEN [tracker |-> tr, text |-> text]
  ELSE LET r == applyVerboseEvent(tr, text, Head(events), t)
       IN ApplyEvents(r.tracker, r.text, Tail(events), t)

VARIABLES
  now,          \* Date.now()
  pending,      \* the pending slot: Null or the id of a scheduled document
  inFlight,     \* TRUE iff `inFlight` holds the promise of a publish loop
  lastSentAt,   \* timestamp of the last publish start
  loop,         \* the publish loop (the async IIFE of kick): [pc, deadline]
  fl,           \* the flush() calls: id -> [pc, deadline, sched, lastPub, pend]
  schedLog,     \* history: the schedule() calls, [at, card] (document id = index)
  pubLog,       \* history: the document (or Null) of each updateCardFeishu call
  failed,       \* history: TRUE iff some updateCardFeishu call rejected
  tracker,      \* the AgentRunTracker: [status, timeline, seen, draftAnswer]
  hist,         \* history: the last tracker operation, [op, batch, len]
  messageId,    \* the controller's messageId (NoId: null)
  assistantBuffer,       \* the controller's accumulated answer text
  assistantBufferState,  \* assistantBufferState.text
  host,         \* the controller call the host is in: [pc, f]
  creates,      \* history: the sendCardFeishu calls, [card, result]
  delivered,    \* history: the number of deliver calls
  lastCall      \* history: the last controller call, [op, empty]

schedVars == <<now, pending, inFlight, lastSentAt, loop, fl, schedLog, pubLog, failed>>
trackerVars == <<tracker, hist>>
ctlVars ==
  <<messageId, assistantBuffer, assistantBufferState, host, creates, delivered, lastCall>>
vars == <<schedVars, trackerVars, ctlVars>>

Flushers == 1 .. MaxFlush

IdleCtx == [pc |-> "idle", deadline |-> 0]
NewFlush == [pc |-> "new", deadline |-> 0, sched |-> 0, lastPub |-> -1, pend |-> Null]

LastPub(log) == IF log = <<>> THEN -1 ELSE log[Len(log)]

\* A scheduler that does not space its publishes.
Wait_NoSpacing(t, last) == 0

\* flushOnce, lines 304-308: the wait before a publish.
Wait(t, last) == Max(0, MIN_INTERVAL_MS - (t - last))

(* flushOnce entered with a non-empty pending slot `p` at time `t`: either  *)
(* it suspends on the interval timer, or (wait = 0) it takes the slot and   *)
(* starts the publish in the same step.                                     *)
FlushOnceStart(p, last, t, log) ==
  IF Wait(t, last) > 0
  THEN [pc |-> "timer", deadline |-> t + Wait(t, last),
        pending |-> p, lastSentAt |-> last, pubLog |-> log]
  ELSE [pc |-> "publishing", deadline |-> 0,
        pending |-> Null, lastSentAt |-> t,
        pubLog |-> Append(log, p)]

NoHist == [op |-> "new", batch |-> <<>>, len |-> 0]

TrackerInit ==
  /\ tracker = NewTracker
  /\ hist = NoHist

HostIdle == [pc |-> "idle", f |-> 0]

CtlInit ==
  /\ messageId = NoId
  /\ assistantBuffer = <<>>
  /\ assistantBufferState = <<>>
  /\ host = HostIdle
  /\ creates = <<>>
  /\ delivered = 0
  /\ lastCall = [op |-> "new", empty |-> FALSE]

SchedInit ==
  /\ now = StartTime
  /\ pending = Null
  /\ inFlight = FALSE
  /\ lastSentAt = 0
  /\ loop = IdleCtx
  /\ fl = [f \in Flushers |-> NewFlush]
  /\ schedLog = <<>>
  /\ pubLog = <<>>
  /\ failed = FALSE

\* Some flushOnce is suspended on an interval timer that is not yet due.
TimerWaiting ==
  \/ loop.pc = "timer" /\ loop.deadline > now
  \/ \E f \in Flushers : fl[f].pc = "timer" /\ fl[f].deadline > now

(* A continuation of `await inFlight` is queued as a microtask: it runs     *)
(* before the clock moves on and before any timer or network callback (a    *)
(* macrotask); only other microtasks, such as a caller's, may run first.    *)
NoMicrotask == \A f \in Flushers : fl[f].pc # "resume"

(* Time passes.  The clock is followed up to MaxTime, and beyond it only    *)
(* until the timers already set are due.                                    *)
Advance(step) ==
  /\ NoMicrotask
  /\ now + step <= MaxTime \/ TimerWaiting
  /\ now' = now + step
  /\ UNCHANGED <<pending, inFlight, lastSentAt, loop, fl, schedLog, pubLog, failed>>
  /\ UNCHANGED <<trackerVars, ctlVars>>

Tick == Advance(TickMs)

(* schedule(card): pending = card; kick().  kick starts the loop unless one *)
(* is in flight; the loop body runs synchronously up to its first await     *)
(* (the interval timer, or the publish when no wait is due).  The result is *)
(* the scheduler's state after the call.                                    *)
schedule(card) ==
  LET doc == Len(schedLog) + 1
      r == FlushOnceStart(doc, lastSentAt, now, pubLog)
      log == Append(schedLog, [at |-> now, card |-> card])
  IN IF inFlight
     THEN [schedLog |-> log, pending |-> doc, inFlight |-> TRUE,
           lastSentAt |-> lastSentAt, pubLog |-> pubLog, loop |-> loop]
     ELSE [schedLog |-> log, pending |-> r.pending, inFlight |-> TRUE,
           lastSentAt |-> r.lastSentAt, pubLog |-> r.pubLog,
           loop |-> [pc |-> r.pc, deadline |-> r.deadline]]

\* A flush() call that has run to its end: its promise resolves.
Resolved(ctx, log, p) ==
  [ctx EXCEPT !.pc = "resolved", !.deadline = 0, !.lastPub = LastPub(log), !.pend = p]

(* `if (pending) await flushOnce()` of flush(), reached by flusher f with    *)
(* the scheduler in state s: the part of flush() after `await inFlight`.    *)
(* The result is the flushers, pending, lastSentAt and pubLog afterwards.   *)
flushTail(f, s) ==
  IF s.pending # Null
  THEN LET r == FlushOnceStart(s.pending, s.lastSentAt, now, s.pubLog)
       IN [fl |-> [s.fl EXCEPT ![f].pc = r.pc, ![f].deadline = r.deadline],
           pending |-> r.pending, lastSentAt |-> r.lastSentAt, pubLog |-> r.pubLog]
  ELSE [fl |-> [s.fl EXCEPT ![f] = Resolved(s.fl[f], s.pubLog, s.pending)],
        pending |-> s.pending, lastSentAt |-> s.lastSentAt, pubLog |-> s.pubLog]

\* A flush() that does not wait for the publish loop.
flush_NoAwait(f, s) ==
  flushTail(f, [s EXCEPT !.fl[f].sched = Len(s.schedLog)])

(* flush() called as flusher f with the scheduler in state s:               *)
(* `if (inFlight) await inFlight;` suspends on the loop's promise;          *)
(* otherwise the call runs on synchronously.                                *)
flush(f, s) ==
  LET base == [s EXCEPT !.fl[f].sched = Len(s.schedLog)]
  IN IF s.inFlight
     THEN [fl |-> [base.fl EXCEPT ![f].pc = "awaitLoop"],
           pending |-> s.pending, lastSentAt |-> s.lastSentAt, pubLog |-> s.pubLog]
     ELSE flushTail(f, base)

\* The scheduler's state as flush() and flushTail read it.
SchedState ==
  [fl |-> fl, schedLog |-> schedLog, pending |-> pending, inFlight |-> inFlight,
   lastSentAt |-> lastSentAt, pubLog |-> pubLog]

\* The next unused flush() call slot.
NextFlusher(f) == fl[f].pc = "new" /\ \A g \in Flushers : g < f => fl[g].pc # "new"

\* flushOnce lines 309-312 after the timer: take the slot and publish it.
TakeAndPublish ==
  /\ pubLog' = Append(pubLog, pending)
  /\ pending' = Null
  /\ lastSentAt' = now

\* The loop's interval timer fires (no earlier than its deadline).
LoopTimerFire ==
  /\ NoMicrotask
  /\ loop.pc = "timer"
  /\ now >= loop.deadline
  /\ TakeAndPublish
  /\ loop' = [pc |-> "publishing", deadline |-> 0]
  /\ UNCHANGED <<now, inFlight, fl, schedLog, failed>>
  /\ UNCHANGED <<trackerVars, ctlVars>>

\* The flushers awaiting the loop's promise when it settles.
Settle(ok) ==
  [f \in Flushers |->
     IF fl[f].pc = "awaitLoop"
     THEN [fl[f] EXCEPT !.pc = IF ok THEN "resume" ELSE "rejected"]
     ELSE fl[f]]

\* A loop that publishes once and ends, whatever arrived meanwhile.
LoopPublishOk_NoRestart ==
  /\ NoMicrotask
  /\ loop.pc = "publishing"
  /\ loop' = IdleCtx
  /\ inFlight' = FALSE
  /\ fl' = Settle(TRUE)
  /\ UNCHANGED <<now, pending, lastSentAt, pubLog, schedLog, failed>>
  /\ UNCHANGED <<trackerVars, ctlVars>>

(* updateCardFeishu of the loop resolves: `while (pending)` goes round, or  *)
(* the loop ends, `finally` clears inFlight and the promise resolves.       *)
LoopPublishOk ==
  /\ NoMicrotask
  /\ loop.pc = "publishing"
  /\ IF pending # Null
     THEN LET r == FlushOnceStart(pending, lastSentAt, now, pubLog)
          IN /\ loop' = [pc |-> r.pc, deadline |-> r.deadline]
             /\ pending' = r.pending
             /\ lastSentAt' = r.lastSentAt
             /\ pubLog' = r.pubLog
             /\ UNCHANGED <<inFlight, fl>>
     ELSE /\ loop' = IdleCtx
          /\ inFlight' = FALSE
          /\ fl' = Settle(TRUE)
          /\ UNCHANGED <<pending, lastSentAt, pubLog>>
  /\ UNCHANGED <<now, schedLog, failed>>
  /\ UNCHANGED <<trackerVars, ctlVars>>

\* A loop that, left on a failed publish, is not started again.
LoopPublishFail_NoRestart ==
  /\ NoMicrotask
  /\ loop.pc = "publishing"
  /\ failed' = TRUE
  /\ fl' = Settle(FALSE)
  /\ loop' = IdleCtx
  /\ inFlight' = FALSE
  /\ UNCHANGED <<now, pending, lastSentAt, pubLog, schedLog>>
  /\ UNCHANGED <<trackerVars, ctlVars>>

(* updateCardFeishu of the loop rejects: the loop is left through           *)
(* `finally`, which clears inFlight and kicks a new loop when a document is *)
(* pending; the old promise rejects.                                        *)
LoopPublishFail ==
  /\ NoMicrotask
  /\ loop.pc = "publishing"
  /\ failed' = TRUE
  /\ fl' = Settle(FALSE)
  /\ IF pending # Null
     THEN LET r == FlushOnceStart(pending, lastSentAt, now, pubLog)
          IN /\ loop' = [pc |-> r.pc, deadline |-> r.deadline]
             /\ pending' = r.pending
             /\ lastSentAt' = r.lastSentAt
             /\ pubLog' = r.pubLog
             /\ inFlight' = TRUE
     ELSE /\ loop' = IdleCtx
          /\ inFlight' = FALSE
          /\ UNCHANGED <<pending, lastSentAt, pubLog>>
  /\ UNCHANGED <<now, schedLog>>
  /\ UNCHANGED <<trackerVars, ctlVars>>

\* flush() resumes after `await inFlight` (the loop's promise resolved).
FlushResume(f) ==
  /\ fl[f].pc = "resume"
  /\ LET r == flushTail(f, SchedState)
     IN /\ fl' = r.fl
        /\ pending' = r.pending
        /\ lastSentAt' = r.lastSentAt
        /\ pubLog' = r.pubLog
  /\ UNCHANGED <<now, inFlight, loop, schedLog, failed>>
  /\ UNCHANGED <<trackerVars, ctlVars>>

\* The interval timer of flush()'s own flushOnce fires.
FlushTimerFire(f) ==
  /\ NoMicrotask
  /\ fl[f].pc = "timer"
  /\ now >= fl[f].deadline
  /\ TakeAndPublish
  /\ fl' = [fl EXCEPT ![f].pc = "publishing", ![f].deadline = 0]
  /\ UNCHANGED <<now, inFlight, loop, schedLog, failed>>
  /\ UNCHANGED <<trackerVars, ctlVars>>

\* updateCardFeishu of flush()'s own flushOnce resolves: flush() resolves.
FlushPublishOk(f) ==
  /\ NoMicrotask
  /\ fl[f].pc = "publishing"
  /\ fl' = [fl EXCEPT ![f] = Resolved(fl[f], pubLog, pending)]
  /\ UNCHANGED <<now, pending, inFlight, lastSentAt, loop, schedLog, pubLog, failed>>
  /\ UNCHANGED <<trackerVars, ctlVars>>

\* updateCardFeishu of flush()'s own flushOnce rejects: flush() rejects.
FlushPublishFail(f) ==
  /\ NoMicrotask
  /\ fl[f].pc = "publishing"
  /\ fl' = [fl EXCEPT ![f].pc = "rejected"]
  /\ failed' = TRUE
  /\ UNCHANGED <<now, pending, inFlight, lastSentAt, loop, schedLog, pubLog>>
  /\ UNCHANGED <<trackerVars, ctlVars>>

\* ---------------------------------------------- the scheduler on its own
\* A caller hands the scheduler an opaque document.
Schedule ==
  /\ Len(schedLog) < MaxSched
  /\ LET s == schedule("card")
     IN /\ schedLog' = s.schedLog
        /\ pending' = s.pending
        /\ inFlight' = s.inFlight
        /\ lastSentAt' = s.lastSentAt
        /\ pubLog' = s.pubLog
        /\ loop' = s.loop
  /\ UNCHANGED <<now, fl, failed>>
  /\ UNCHANGED <<trackerVars, ctlVars>>

Flush ==
  \E f \in Flushers :
    /\ NextFlusher(f)
    /\ LET r == flush(f, SchedState)
       IN /\ fl' = r.fl
          /\ pending' = r.pending
          /\ lastSentAt' = r.lastSentAt
          /\ pubLog' = r.pubLog
    /\ UNCHANGED <<now, inFlight, loop, schedLog, failed>>
    /\ UNCHANGED <<trackerVars, ctlVars>>

Resume == \E f \in Flushers : FlushResume(f)
FlushTimer == \E f \in Flushers : FlushTimerFire(f)
FlushDone == \E f \in Flushers : FlushPublishOk(f)
FlushFail == \E f \in Flushers : FlushPublishFail(f)

Next ==
  \/ Tick
  \/ Schedule
  \/ Flush
  \/ LoopTimerFire
  \/ LoopPublishOk
  \/ LoopPublishFail
  \/ Resume
  \/ FlushTimer
  \/ FlushDone
  \/ FlushFail

Init == SchedInit /\ TrackerInit /\ CtlInit

Spec == Init /\ [][Next]_vars

\* The scheduler driven by schedule() alone: no caller ever calls flush().
NextSched ==
  \/ Tick
  \/ Schedule
  \/ LoopTimerFire
  \/ LoopPublishOk
  \/ LoopPublishFail

SpecSched == Init /\ [][NextSched]_vars

(* The scheduler driven by schedule() alone, every publish succeeding.  The *)
(* interval timer is a setTimeout and the publish a network call that      *)
(* completes: both are sure to run, and the clock to advance.               *)
NextLive ==
  \/ Tick
  \/ Schedule
  \/ LoopTimerFire
  \/ LoopPublishOk

SpecLive ==
  /\ Init
  /\ [][NextLive]_vars
  /\ WF_vars(Tick)
  /\ WF_vars(LoopTimerFire)
  /\ WF_vars(LoopPublishOk)

\* ------------------------------------------------- the tracker on its own
ToolIds == {"t1", "t2"}

ToolCall(toolName, toolUseId, startedAt) ==
  [type |-> "tool-call", toolName |-> toolName, toolUseId |-> toolUseId,
   startedAt |-> startedAt]
ToolResult(toolUseId, durationMs, completedAt) ==
  [type |-> "tool-result", toolUseId |-> toolUseId, durationMs |-> durationMs,
   completedAt |-> completedAt]
TextPart(text) == [type |-> "text", text |-> text]
ThinkingPart(text) == [type |-> "thinking", text |-> text]
Assistant(content) == [role |-> "assistant", content |-> content]
ToolMessage(toolUseId, content) ==
  [role |-> "tool", toolUseId |-> toolUseId, content |-> content]

\* A tool message carrying the result of tool call `id`, on its own.
ResultOnly(id) == <<ToolMessage(id, <<ToolResult(id, 1200, NoNum)>>)>>

\* The message batches handed to appendMessages.
Batches ==
  {<<Assistant(<<ToolCall("read", "t1", StartTime)>>)>>,
   <<Assistant(<<ToolCall("read", NoId, StartTime)>>)>>,
   <<Assistant(<<ToolCall("read", "t1", StartTime)>>),
     ToolMessage("t1", <<ToolResult("t1", 1200, NoNum)>>)>>,
   ResultOnly("t1"),
   <<Assistant(<<ToolCall("exec", "t1", NoNum), ToolCall("read", "t1", NoNum)>>)>>,
   <<Assistant(<<ToolCall("exec", "t2", StartTime)>>),
     ToolMessage("t2", <<ToolResult("t2", NoNum, StartTime + 700)>>)>>,
   ResultOnly("t2"),
   <<Assistant(<<TextPart(<<"h", "i">>)>>)>>,
   <<Assistant(<<ThinkingPart(<<"h", "i">>), TextPart(<<" ", "h", "i", "\n">>)>>)>>,
   <<Assistant(<<TextPart(<<" ">>)>>)>>}

Drafts == {<<>>, <<"o", "k">>}

TrAppendMessages ==
  \E b \in Batches :
    /\ tracker' = appendMessages(tracker, b, now)
    /\ hist' = [op |-> "appendMessages", batch |-> b, len |-> Len(tracker.timeline)]
    /\ UNCHANGED <<schedVars, ctlVars>>

TrSetStatus ==
  \E status \in AgentRunStatus :
    /\ tracker' = setStatus(tracker, status)
    /\ hist' = [op |-> "setStatus", batch |-> <<>>, len |-> Len(tracker.timeline)]
    /\ UNCHANGED <<schedVars, ctlVars>>

TrSetDraftAnswer ==
  \E answer \in Drafts :
    /\ tracker' = setDraftAnswer(tracker, answer)
    /\ hist' = [op |-> "setDraftAnswer", batch |-> <<>>, len |-> Len(tracker.timeline)]
    /\ UNCHANGED <<schedVars, ctlVars>>

TrReset ==
  /\ tracker' = reset(tracker)
  /\ hist' = [op |-> "reset", batch |-> <<>>, len |-> Len(tracker.timeline)]
  /\ UNCHANGED <<schedVars, ctlVars>>

TrackerNext ==
  \/ TrAppendMessages
  \/ TrSetStatus
  \/ TrSetDraftAnswer
  \/ TrReset

TrackerSpec == Init /\ [][TrackerNext]_vars

\* ------------------------------------------------- the renderer controller
Event(stream, phase, name, toolCallId, text, durationMs, isError) ==
  [stream |-> stream, phase |-> phase, name |-> name, toolCallId |-> toolCallId,
   text |-> text, durationMs |-> durationMs, isError |-> isError, error |-> <<>>]

Payload(messages, events, text) ==
  [messages |-> messages, events |-> events, text |-> text]

\* The reply payloads the host delivers.
Payloads ==
  {Payload(<<>>, <<>>, <<" ">>),
   Payload(<<>>, <<>>, <<"h", "i">>),
   Payload(<<>>, <<>>, <<"l", "s", ":", " ", "a", "\n", "o", "k">>),
   Payload(<<Assistant(<<ToolCall("read", "t1", NoNum)>>)>>, <<>>, <<>>),
   Payload(<<>>, <<Event("tool", "start", "read", "t1", <<>>, NoNum, ""),
                   Event("tool", "end", "read", "t1", <<>>, 1200, "")>>, <<>>),
   Payload(<<>>, <<Event("assistant", "", "", NoId, <<"h", "i">>, NoNum, "")>>, <<>>)}

(* An empty-content delivery: no canonical messages, no verbose events, and *)
(* text that is absent or whitespace-only.                                  *)
EmptyContent(payload) ==
  payload.messages = <<>> /\ payload.events = <<>> /\ Trim(payload.text) = <<>>

\* A controller that creates a message on every delivery.
NeedsCreate_Always(id) == TRUE

\* deliver, line 423: `if (!messageId)`.
NeedsCreate(id) == id = NoId

\* A renderer whose renderCard schedules even when no message exists.
SchedulesEdit_Always(id) == TRUE

\* renderCard, lines 359-362: `updater.schedule(card)` unless `!messageId`.
SchedulesEdit(id) == id # NoId

\* renderCard: the card built from the tracker (no mention targets).
renderCard(tr, collapseTimeline) == buildLarkCard(buildRenderState(tr, collapseTimeline))

\* The host is in no controller call: the last one has resolved or rejected.
HostFree ==
  \/ host.pc \in {"idle", "threw"}
  \/ host.pc = "flushing" /\ fl[host.f].pc \in {"resolved", "rejected"}

\* A deliver that applies the events only when the payload has no messages.
EventsApplied_UnlessMessages(payload) ==
  IF payload.events # <<>> /\ payload.messages = <<>>
  THEN ApplyEvents(tracker, assistantBufferState, payload.events, now)
  ELSE [tracker |-> tracker, text |-> assistantBufferState]

\* deliver, lines 383-390: the events of the payload applied, if it has any.
EventsApplied(payload) ==
  IF payload.events # <<>>
  THEN ApplyEvents(tracker, assistantBufferState, payload.events, now)
  ELSE [tracker |-> tracker, text |-> assistantBufferState]

\* deliver, lines 387-389: assistantBuffer after the events.
BufferAfterEvents(payload, ev) ==
  IF payload.events # <<>> /\ ev.text # <<>> THEN ev.text ELSE assistantBuffer

\* deliver, lines 392-397: the canonical messages of the payload.
DeliverMessages(payload, ev, buffer) ==
  LET nextStatus == inferStatusFromMessages(payload.messages)
  IN [tracker |-> appendMessages(IF nextStatus # "" THEN setStatus(ev.tracker, nextStatus)
                                 ELSE ev.tracker,
                                 payload.messages, now),
      assistantBuffer |-> buffer, assistantBufferState |-> ev.text, skipped |-> FALSE]

\* deliver, lines 401-409: the tool lines appended as text parts.
ToolLinesAppended(tr, toolLines) ==
  IF toolLines # <<>>
  THEN appendMessages(setStatus(tr, "tool-calling"),
                      <<[role |-> "assistant",
                         content |-> [k \in DOMAIN toolLines |->
                                        [type |-> "text", text |-> toolLines[k]]]]>>,
                      now)
  ELSE tr

\* deliver, lines 411-417: the remaining text merged into the answer.
RemainingMerged(withTools, ev, buffer, split, merged) ==
  [tracker |-> IF split.remainingText # <<>>
               THEN IF split.toolLines = <<>>
                    THEN setStatus(setDraftAnswer(withTools, merged), "thinking")
                    ELSE setDraftAnswer(withTools, merged)
               ELSE withTools,
   assistantBuffer |-> IF split.remainingText # <<>> THEN merged ELSE buffer,
   assistantBufferState |-> ev.text, skipped |-> FALSE]

\* deliver, lines 398-418: the plain text of the payload.
DeliverText(ev, buffer, split) ==
  RemainingMerged(ToolLinesAppended(ev.tracker, split.toolLines), ev, buffer, split,
                  mergeStreamText(buffer, split.remainingText))

\* A deliver without the early return on an empty delivery.
DeliverBranch_NoSkip(payload, ev, buffer) ==
  IF payload.messages # <<>>
  THEN DeliverMessages(payload, ev, buffer)
  ELSE IF Trim(payload.text) # <<>>
  THEN DeliverText(ev, buffer, splitToolSummaryLines(payload.text))
  ELSE [tracker |-> ev.tracker, assistantBuffer |-> buffer,
        assistantBufferState |-> ev.text, skipped |-> FALSE]

\* deliver, lines 392-420: the branch taken after the events.
DeliverBranch(payload, ev, buffer) ==
  IF payload.messages # <<>>
  THEN DeliverMessages(payload, ev, buffer)
  ELSE IF Trim(payload.text) # <<>>
  THEN DeliverText(ev, buffer, splitToolSummaryLines(payload.text))
  ELSE [tracker |-> ev.tracker, assistantBuffer |-> buffer,
        assistantBufferState |-> ev.text, skipped |-> payload.events = <<>>]

\* deliver, lines 387-420, with the events applied.
DeliverAfterEvents(payload, ev) ==
  DeliverBranch(payload, ev, BufferAfterEvents(payload, ev))

(* deliver, lines 380-420: the payload applied to the tracker and the       *)
(* buffers; `skipped` is the early return on an empty delivery.             *)
deliverState(payload) == DeliverAfterEvents(payload, EventsApplied(payload))

\* The scheduler takes the state s that schedule() and flush() computed.
SetSched(s, r) ==
  /\ schedLog' = s.schedLog
  /\ inFlight' = s.inFlight
  /\ loop' = s.loop
  /\ fl' = r.fl
  /\ pending' = r.pending
  /\ lastSentAt' = r.lastSentAt
  /\ pubLog' = r.pubLog

(* deliver(payload), up to its return or to `await sendCardFeishu(...)`.    *)
deliver(payload) ==
    \E d \in {deliverState(payload)} :
    \E card \in {renderCard(d.tracker, FALSE)} :
    \E s \in {schedule(card)} :
       /\ HostFree
       /\ delivered < MaxDeliver
       /\ delivered' = delivered + 1
       /\ lastCall' = [op |-> "deliver", empty |-> EmptyContent(payload)]
       /\ tracker' = d.tracker
       /\ hist' = [op |-> "deliver", batch |-> <<>>, len |-> Len(tracker.timeline)]
       /\ assistantBuffer' = d.assistantBuffer
       /\ assistantBufferState' = d.assistantBufferState
       /\ UNCHANGED <<now, failed, messageId>>
       /\ IF d.skipped
          THEN /\ host' = HostIdle
               /\ UNCHANGED <<creates, pending, inFlight, lastSentAt, loop, fl,
                              schedLog, pubLog>>
          ELSE IF NeedsCreate(messageId)
          THEN /\ host' = [pc |-> "creating", f |-> 0]
               /\ creates' = Append(creates, [card |-> card, result |-> "pending"])
               /\ UNCHANGED <<pending, inFlight, lastSentAt, loop, fl, schedLog, pubLog>>
          ELSE /\ host' = HostIdle
               /\ SetSched(s, s @@ [fl |-> fl])
               /\ UNCHANGED creates

\* The host delivers one of the reply payloads.
Deliver == \E payload \in Payloads : deliver(payload)

(* sendCardFeishu resolves: messageId = result.messageId and the Update     *)
(* Scheduler of the message is constructed; deliver resolves.               *)
CreateOk ==
  /\ host.pc = "creating"
  /\ host' = HostIdle
  /\ creates' = [creates EXCEPT ![Len(creates)].result = "ok"]
  /\ messageId' = "om_1"
  /\ pending' = Null
  /\ inFlight' = FALSE
  /\ lastSentAt' = 0
  /\ loop' = IdleCtx
  /\ UNCHANGED <<now, fl, schedLog, pubLog, failed>>
  /\ UNCHANGED <<trackerVars, assistantBuffer, assistantBufferState, delivered, lastCall>>

\* sendCardFeishu rejects: deliver rejects, no message exists.
CreateFail ==
  /\ host.pc = "creating"
  /\ host' = HostIdle
  /\ creates' = [creates EXCEPT ![Len(creates)].result = "failed"]
  /\ UNCHANGED <<schedVars, trackerVars>>
  /\ UNCHANGED <<messageId, assistantBuffer, assistantBufferState, delivered, lastCall>>

(* finalize() and onError(): unless skipped, force the status, render the   *)
(* collapsed card (scheduling it when a message exists) and                 *)
(* `await updater?.flush()`.                                                *)
Conclude(op, status, skip) ==
  \E tr \in {setStatus(tracker, status)} :
  \E s \in {schedule(renderCard(tr, TRUE))} :
     /\ HostFree
     /\ lastCall' = [op |-> op, empty |-> FALSE]
     /\ UNCHANGED <<now, failed, messageId, assistantBuffer, assistantBufferState,
                    creates, delivered>>
     /\ IF skip
        THEN /\ host' = HostIdle
             /\ UNCHANGED <<trackerVars, pending, inFlight, lastSentAt, loop, fl,
                            schedLog, pubLog>>
        ELSE /\ tracker' = tr
             /\ hist' = [op |-> op, batch |-> <<>>, len |-> Len(tracker.timeline)]
             /\ IF ~SchedulesEdit(messageId)
                THEN /\ host' = HostIdle
                     /\ UNCHANGED <<pending, inFlight, lastSentAt, loop, fl, schedLog, pubLog>>
                ELSE \E f \in Flushers :
                       /\ NextFlusher(f)
                       /\ host' = [pc |-> "flushing", f |-> f]
                       /\ SetSched(s, flush(f, s @@ [fl |-> fl]))

(* finalize, line 434: `!messageId && !assistantBuffer.trim() &&            *)
(* tracker.currentStatus === AgentRunStatus.Thinking`.                      *)
FinalizeSkips ==
  messageId = NoId /\ Trim(assistantBuffer) = <<>> /\ tracker.status = "thinking"

\* An onError() that is skipped under the condition of finalize().
OnErrorSkips_AsFinalize == FinalizeSkips

\* onError, line 442: `!messageId && !assistantBuffer.trim()`.
OnErrorSkips == messageId = NoId /\ Trim(assistantBuffer) = <<>>

\* finalize()
Finalize == Conclude("finalize", "completed", FinalizeSkips)

\* onError()
OnError == Conclude("onError", "error", OnErrorSkips)

CtlTick == Advance(CtlTickMs)

CtlNext ==
  \/ CtlTick
  \/ Deliver
  \/ CreateOk
  \/ CreateFail
  \/ Finalize
  \/ OnError
  \/ LoopTimerFire
  \/ LoopPublishOk
  \/ LoopPublishFail
  \/ Resume

(* One run of the controller; the host makes its calls one after another    *)
(* (spec section 5: a single logical owner per run).                        *)
CtlSpec == Init /\ [][CtlNext]_vars

\* ------------------------------------------- deliveries of mixed payloads
\* Payloads that carry more than one of messages, events and text.
MixedPayloads ==
  {Payload(<<Assistant(<<ToolCall("read", "t1", NoNum)>>)>>,
           <<Event("tool", "start", "exec", "t2", <<>>, NoNum, "")>>, <<>>),
   Payload(<<>>, <<Event("tool", "start", "exec", "t2", <<>>, NoNum, "")>>, <<"o", "k">>),
   Payload(<<Assistant(<<ToolCall("read", "t1", NoNum)>>)>>, <<>>, <<"o", "k">>)}

\* The payload {text: "web_search: query=foo\nHere are the results"}.
WebSearchPayload ==
  Payload(<<>>, <<>>,
          <<"w", "e", "b", "_", "s", "e", "a", "r", "c", "h", ":", " ",
          "q", "u", "e", "r", "y", "=", "f", "o", "o", "\n", "H", "e",
          "r", "e", " ", "a", "r", "e", " ", "t", "h", "e", " ", "r",
          "e", "s", "u", "l", "t", "s">>)

\* An assistant-stream event with data.text = text.
AssistantEvent(text) == Event("assistant", "", "", NoId, text, NoNum, "")

\* "Hello"
Hello == <<"H", "e", "l", "l", "o">>

\* "Hello world"
HelloWorld == Hello \o <<" ", "w", "o", "r", "l", "d">>

(* The assistant stream "Hello", "Hello world": the two events each in a    *)
(* payload of its own, and both in one payload.                             *)
StreamPayloads ==
  {Payload(<<>>, <<AssistantEvent(Hello)>>, <<>>),
   Payload(<<>>, <<AssistantEvent(HelloWorld)>>, <<>>),
   Payload(<<>>, <<AssistantEvent(Hello), AssistantEvent(HelloWorld)>>, <<>>)}

\* The reply payloads of the scenarios; the last one has no text at all.
ScenarioPayloads ==
  Payloads \cup MixedPayloads \cup StreamPayloads
    \cup {WebSearchPayload, Payload(<<>>, <<>>, <<>>)}

(* Payloads of other shapes.  An element of `messages` is an object with    *)
(* the fields of a message ("object", the message in msg), an object with a *)
(* role and no content ("no-content"), null ("null") or a string            *)
(* ("string"); textIsString is FALSE for a text that is a number.           *)
MalformedPayloads ==
  {[messages |-> <<[shape |-> "no-content", role |-> "assistant"]>>,
    events |-> <<>>, text |-> <<"h", "i">>, textIsString |-> TRUE],
   [messages |-> <<[shape |-> "object", msg |-> Assistant(<<ToolCall("read", "t1", NoNum)>>)],
                   [shape |-> "null"]>>,
    events |-> <<>>, text |-> <<"h", "i">>, textIsString |-> TRUE],
   [messages |-> <<[shape |-> "object", msg |-> Assistant(<<ToolCall("read", "t1", NoNum)>>)],
                   [shape |-> "no-content", role |-> "tool"]>>,
    events |-> <<>>, text |-> <<>>, textIsString |-> TRUE],
   [messages |-> <<[shape |-> "string"]>>,
    events |-> <<>>, text |-> <<"h", "i">>, textIsString |-> TRUE],
   [messages |-> <<>>, events |-> <<>>, text |-> <<>>, textIsString |-> FALSE],
   [messages |-> <<>>,
    events |-> <<Event("tool", "start", "exec", "t2", <<>>, NoNum, "")>>,
    text |-> <<>>, textIsString |-> FALSE]}

(* extractAgentMessages: payload.messages when it is a non-empty array with *)
(* some element that is an object with a role; <<>> is `null`.              *)
extractAgentMessages(raw) ==
  IF \E k \in DOMAIN raw.messages : raw.messages[k].shape \in {"object", "no-content"}
  THEN raw.messages
  ELSE <<>>

(* inferStatusFromMessages throws a TypeError: `message.role` of null, or   *)
(* `for (const part of message.content)` of an assistant without content.   *)
InferStatusThrows(list) ==
  \E k \in DOMAIN list :
    \/ list[k].shape = "null"
    \/ list[k].shape = "no-content" /\ list[k].role = "assistant"

(* collectDisplayChunks throws a TypeError: `message.role` of null, or the  *)
(* iteration of the content of an assistant or tool message without one.    *)
CollectThrows(list) ==
  \E k \in DOMAIN list :
    \/ list[k].shape = "null"
    \/ list[k].shape = "no-content" /\ list[k].role \in {"assistant", "tool"}

(* The messages as both loops see them when nothing throws: an element that *)
(* is no message object has no role "assistant" or "tool" and is passed by. *)
MessagesSeen(list) ==
  [k \in DOMAIN list |->
     IF list[k].shape = "object" THEN list[k].msg ELSE [role |-> "", content |-> <<>>]]

\* deliver, line 381 and 398: `payloadText.trim()` of a text that is no string.
TextThrows(raw) == extractAgentMessages(raw) = <<>> /\ ~raw.textIsString

(* deliver(payload) of a payload of any shape: the call throws where the    *)
(* code reaches a TypeError, with the tracker mutated up to that point;     *)
(* otherwise it is the deliver of the messages, events and text extracted.  *)
deliverRaw(raw) ==
  LET list == extractAgentMessages(raw)
  IN IF InferStatusThrows(list) \/ CollectThrows(list) \/ TextThrows(raw)
     THEN \E ev \in {EventsApplied(raw)} :
          \E nextStatus \in {IF InferStatusThrows(list) \/ list = <<>> THEN ""
                              ELSE inferStatusFromMessages(
                                     MessagesSeen(SelectSeq(list, LAMBDA e : e.shape # "no-content")))} :
            /\ HostFree
            /\ delivered < MaxDeliver
            /\ delivered' = delivered + 1
            /\ lastCall' = [op |-> "deliver", empty |-> FALSE]
            /\ tracker' = IF nextStatus # "" THEN setStatus(ev.tracker, nextStatus)
                          ELSE ev.tracker
            /\ hist' = [op |-> "deliver", batch |-> <<>>, len |-> Len(tracker.timeline)]
            /\ assistantBuffer' = BufferAfterEvents(raw, ev)
            /\ assistantBufferState' = ev.text
            /\ host' = [pc |-> "threw", f |-> 0]
            /\ UNCHANGED <<schedVars, messageId, creates>>
     ELSE deliver(Payload(MessagesSeen(list), raw.events, raw.text))

\* The host delivers a payload of another shape.
DeliverMalformed == \E raw \in MalformedPayloads : deliverRaw(raw)

\* The host delivers one of the scenario payloads.
DeliverScenario == \E payload \in ScenarioPayloads : deliver(payload)

PayloadNext ==
  \/ CtlTick
  \/ DeliverScenario
  \/ DeliverMalformed
  \/ Finalize
  \/ Resume
  \/ CreateOk
  \/ CreateFail
  \/ LoopTimerFire
  \/ LoopPublishOk
  \/ LoopPublishFail

(* One run of the controller on the scenario payloads: the host delivers    *)
(* and finalizes, one call after another.                                   *)
PayloadSpec == Init /\ [][PayloadNext]_vars

\* ------------------------------------------------ the stream-text merge
MaxTextLen == 3

\* The texts of at most MaxTextLen characters over two letters.
Texts == UNION {[1..n -> {"a", "b"}] : n \in 0..MaxTextLen}

\* A controller whose answer buffers hold some text already.
MergeInit ==
  /\ SchedInit
  /\ hist = NoHist
  /\ messageId = NoId
  /\ host = HostIdle
  /\ creates = <<>>
  /\ delivered = 0
  /\ lastCall = [op |-> "new", empty |-> FALSE]
  /\ \E text \in Texts :
       /\ assistantBuffer = text
       /\ assistantBufferState = text
       /\ tracker = setDraftAnswer(NewTracker, text)

(* deliver, lines 412-413: the remaining text `next` of a payload merged    *)
(* into assistantBuffer, which becomes the draft answer.                    *)
MergeText ==
  \E next \in Texts \ {<<>>} :
    /\ Len(assistantBuffer) <= MaxTextLen
    /\ assistantBuffer' = mergeStreamText(assistantBuffer, next)
    /\ tracker' = setDraftAnswer(tracker, assistantBuffer')
    /\ hist' = [op |-> "mergeStreamText", batch |-> <<assistantBuffer, next>>, len |-> 0]
    /\ UNCHANGED <<schedVars, messageId, assistantBufferState, host, creates,
                   delivered, lastCall>>

\* applyVerboseEvent of an assistant-stream event with data.text = next.
MergeEvent ==
  \E next \in Texts :
    \E r \in {applyVerboseEvent(tracker, assistantBufferState,
                                Event("assistant", "", "", NoId, next, NoNum, ""), now)} :
      /\ Len(assistantBufferState) <= MaxTextLen
      /\ tracker' = r.tracker
      /\ assistantBufferState' = r.text
      /\ hist' = [op |-> "applyVerboseEvent", batch |-> <<assistantBufferState, next>>,
                  len |-> 0]
      /\ UNCHANGED <<schedVars, messageId, assistantBuffer, host, creates,
                     delivered, lastCall>>

MergeNext ==
  \/ MergeText
  \/ MergeEvent

\* The merges of streamed text, from any text already buffered.
MergeSpec == MergeInit /\ [][MergeNext]_vars

\* ------------------------------------------------------------------ claims
\* The flushOnce activations (of the loop, of a flush()) awaiting updateCardFeishu.
Publishing ==
  (IF loop.pc = "publishing" THEN {0} ELSE {}) \cup {f \in Flushers : fl[f].pc = "publishing"}

(* C1: at most one updateCardFeishu call of a scheduler is in flight at any *)
(* time, under every interleaving of schedule(), flush() and completions.   *)
C1_AtMostOneInFlight == Cardinality(Publishing) <= 1

(* C2: a flush() called after the last schedule() call resolves (no publish *)
(* having failed) only when the last document handed to updateCardFeishu is *)
(* the last scheduled one and the pending slot is empty.                    *)
C2_FlushPublishesLast ==
  \A f \in Flushers :
    (fl[f].pc = "resolved" /\ fl[f].sched = Len(schedLog) /\ ~failed)
      => /\ fl[f].pend = Null
         /\ Len(schedLog) > 0 => fl[f].lastPub = Len(schedLog)

(* C3: without flush(), with every publish succeeding and the timer and    *)
(* the publish completing, the document of each schedule() call is          *)
(* eventually published unless a later schedule() call supersedes it.       *)
C3_LastEventuallyPublished ==
  \A n \in 1 .. MaxSched :
    (Len(schedLog) = n) ~> (Len(schedLog) > n \/ LastPub(pubLog) = n)

\* C3's case: an intermediate document was dropped and the last one published.
C3_Witness ==
  /\ Len(schedLog) = 3
  /\ LastPub(pubLog) = 3
  /\ Len(pubLog) < 3
  /\ loop.pc = "idle"

(* C4: a publish never starts less than MIN_INTERVAL_MS after the previous  *)
(* publish of the same scheduler started.                                   *)
C4_MinSpacing ==
  [][(Len(pubLog') > Len(pubLog) /\ pubLog # <<>>)
       => now - lastSentAt >= MIN_INTERVAL_MS]_vars

(* C5: schedule() overwrites the pending slot with the latest document;     *)
(* each publish carries the document of the most recent schedule() call, so *)
(* the published documents are scheduled ones in strictly increasing order. *)
C5_LatestInOrder ==
  [][/\ Len(schedLog') > Len(schedLog) =>
          (pending' = Len(schedLog') \/ (pending' = Null /\ LastPub(pubLog') = Len(schedLog')))
     /\ Len(pubLog') > Len(pubLog) =>
          /\ LastPub(pubLog') = Len(schedLog')
          /\ LastPub(pubLog) < LastPub(pubLog')]_vars

\* schedule() was called at t0, t0 + 50 and t0 + 100, and flush() never.
C6_Scenario ==
  /\ Len(schedLog) = 3
  /\ schedLog[2].at = schedLog[1].at + 50
  /\ schedLog[3].at = schedLog[1].at + 100
  /\ \A f \in Flushers : fl[f].pc = "new"

\* The scheduler has nothing left to do.
Quiescent == loop.pc = "idle" /\ pending = Null /\ ~inFlight

(* C6 as stated: after schedule() calls at 0, 50 and 100 ms exactly one     *)
(* publish occurs, of the third document, no earlier than 350 ms after the  *)
(* first call.                                                              *)
C6_OnePublish ==
  (C6_Scenario /\ Quiescent)
    => /\ pubLog = <<3>>
       /\ lastSentAt >= schedLog[1].at + MIN_INTERVAL_MS

(* C6 amended: the first call publishes its document at once (a fresh       *)
(* scheduler has lastSentAt = 0), the third document is published no        *)
(* earlier than 350 ms after the first call, the second one never.          *)
C6_TwoPublishes ==
  C6_Scenario
    => /\ pubLog \in {<<1>>, <<1, 3>>}
       /\ Quiescent => /\ pubLog = <<1, 3>>
                       /\ lastSentAt >= schedLog[1].at + MIN_INTERVAL_MS

C6_Witness == C6_Scenario /\ Quiescent /\ pubLog = <<1, 3>>

\* The timeline positions holding an entry of tool call `id`.
EntriesOf(timeline, id) == {i \in DOMAIN timeline : timeline[i].toolUseId = id}

\* The entries a batch projects for tool call `id`, in order.
ProjectedFor(batch, id) ==
  SelectSeq(collectDisplayChunks(batch, now).timeline, LAMBDA e : e.toolUseId = id)

(* C7: after any sequence of tracker calls the timeline holds at most one   *)
(* entry per toolUseId, and appendMessages with a tool-call whose toolUseId *)
(* is present replaces the entry at its position and adds none for it.      *)
C7_OneEntryPerToolUseId ==
  /\ [](\A id \in ToolIds : Cardinality(EntriesOf(tracker.timeline, id)) <= 1)
  /\ [][\A id \in ToolIds :
          (/\ hist'.op = "appendMessages"
           /\ EntriesOf(tracker.timeline, id) # {}
           /\ ProjectedFor(hist'.batch, id) # <<>>)
            => LET entries == ProjectedFor(hist'.batch, id)
                   i == FindIndex(tracker.timeline, id)
               IN /\ EntriesOf(tracker'.timeline, id) = {i}
                  /\ tracker'.timeline[i] = entries[Len(entries)]]_vars

(* C7's case: a tool-call whose toolUseId is on the timeline, ahead of       *)
(* another entry, was appended again together with its result.              *)
C7_Witness ==
  /\ hist.op = "appendMessages"
  /\ hist.len = Len(tracker.timeline)
  /\ Len(tracker.timeline) >= 2
  /\ ProjectedFor(hist.batch, "t1") # <<>>
  /\ tracker.timeline[1].toolUseId = "t1"
  /\ tracker.timeline[1].durationMs = 1200

(* C8: a tool-result appended in a later appendMessages call than its       *)
(* tool-call rewrites the existing entry with the result's duration and     *)
(* leaves the timeline length unchanged.                                    *)
C8_LaterResultRewritesDuration ==
  [][\A id \in ToolIds :
       (/\ hist'.op = "appendMessages"
        /\ hist'.batch = ResultOnly(id)
        /\ EntriesOf(tracker.timeline, id) # {})
         => LET i == FindIndex(tracker.timeline, id)
                result == hist'.batch[1].content[1]
            IN /\ Len(tracker'.timeline) = Len(tracker.timeline)
               /\ tracker'.timeline[i].durationMs = result.durationMs
               /\ tracker'.timeline[i].content =
                    buildToolCallContent(tracker.timeline[i].toolName, result.durationMs)]_vars

\* The number of sendCardFeishu calls that succeeded.
Created == Cardinality({k \in DOMAIN creates : creates[k].result = "ok"})

\* A deliver call made when the message identifier had been obtained.
DeliverAfterCreate == delivered' = delivered + 1 /\ messageId # NoId

\* The step scheduled exactly one edit, of the card rendered from the tracker.
ScheduledEdit(collapseTimeline) ==
  /\ Len(schedLog') = Len(schedLog) + 1
  /\ schedLog'[Len(schedLog')].card = renderCard(tracker', collapseTimeline)

(* C9 as stated: sendCardFeishu succeeds at most once in a run, and every   *)
(* delivery made after the message identifier was obtained schedules an     *)
(* edit on the scheduler and starts no create.                              *)
C9_EveryDeliverySchedules ==
  /\ [](Created <= 1)
  /\ [][DeliverAfterCreate => (ScheduledEdit(FALSE) /\ creates' = creates)]_vars

(* C9 amended: sendCardFeishu succeeds at most once; a delivery made after  *)
(* the message identifier was obtained starts no create, and schedules an   *)
(* edit exactly when its content is not empty.                              *)
C9_NonEmptyDeliverySchedules ==
  /\ [](Created <= 1)
  /\ [][DeliverAfterCreate =>
          /\ creates' = creates
          /\ IF lastCall'.empty THEN UNCHANGED schedLog ELSE ScheduledEdit(FALSE)]_vars

\* C9's case: the second delivery, not empty, came after the create succeeded.
C9_Witness ==
  /\ Created = 1
  /\ delivered = 2
  /\ lastCall = [op |-> "deliver", empty |-> FALSE]
  /\ Len(creates) = 1
  /\ Len(schedLog) = 1

\* No collapsible panel of the card is expanded.
Collapsed(card) ==
  \A k \in DOMAIN card.elements :
    card.elements[k].tag = "collapsible_panel" => ~card.elements[k].expanded

\* finalize(), called with a message created, has resolved.
FinalizeResolved ==
  /\ host.pc = "flushing"
  /\ lastCall.op = "finalize"
  /\ fl[host.f].pc = "resolved"

(* C10: with a message created, finalize() sets the status to Completed and *)
(* schedules the card rendered with the timeline collapsed; when it         *)
(* resolves, no publish having failed, that card is the last one published, *)
(* its publish has completed and it shows the Completed status.             *)
C10_FinalizePublishesCompleted ==
  /\ [][(host' # host /\ host'.pc = "flushing" /\ lastCall'.op = "finalize")
          => (tracker'.status = "completed" /\ ScheduledEdit(TRUE))]_vars
  /\ []((FinalizeResolved /\ ~failed)
          => /\ fl[host.f].lastPub = fl[host.f].sched
             /\ loop.pc = "idle"
             /\ pending = Null
             /\ schedLog[fl[host.f].sched].card.header.title = statusTitles["completed"]
             /\ Collapsed(schedLog[fl[host.f].sched].card))

(* C10's case: finalize() resolved after an earlier card was published, and *)
(* the card it published has the timeline panel, collapsed.                 *)
C10_Witness ==
  /\ FinalizeResolved
  /\ ~failed
  /\ Len(pubLog) >= 2
  /\ \E k \in DOMAIN schedLog[fl[host.f].sched].card.elements :
       schedLog[fl[host.f].sched].card.elements[k].tag = "collapsible_panel"

\* A finalize() call made while no message exists: the whole call is one step.
FinalizeNoMessage == lastCall'.op = "finalize" /\ now' = now /\ messageId = NoId

(* C11: finalize() called when no message was ever created and the draft    *)
(* answer is blank starts no create (sendCardFeishu) and schedules or       *)
(* publishes no edit (updateCardFeishu).                                    *)
C11_BlankFinalizeSendsNothing ==
  [][(FinalizeNoMessage /\ Trim(tracker.draftAnswer) = <<>>)
       => UNCHANGED <<creates, schedLog, pubLog, pending, loop, fl>>]_vars

(* C11's case: finalize() ran to its end (it set the status) with no        *)
(* message and a blank draft answer, after a delivery whose create failed.  *)
C11_Witness ==
  /\ lastCall.op = "finalize"
  /\ messageId = NoId
  /\ Trim(tracker.draftAnswer) = <<>>
  /\ tracker.status = "completed"
  /\ hist.op = "finalize"
  /\ Len(creates) >= 1

\* The call left the tracker, the scheduler and the create calls as they were.
NothingDone == UNCHANGED <<trackerVars, schedVars, creates>>

(* C12 as stated: in every reachable state in which the host can make a    *)
(* call, finalize() is skipped if and only if onError() is skipped.         *)
C12_SameSkipCondition == [](HostFree => (FinalizeSkips <=> OnErrorSkips))

(* C12 amended: onError() does nothing exactly when no message exists and   *)
(* the answer buffer is blank; finalize() does nothing only when moreover   *)
(* the status is still Thinking, so a skipped finalize() implies a skipped  *)
(* onError() but not conversely. Otherwise onError() sets the status Error  *)
(* and, when a message exists, schedules the collapsed card and awaits      *)
(* flush(); with no message it schedules nothing.                           *)
C12_SkipConditions ==
  /\ [](FinalizeSkips => OnErrorSkips)
  /\ [][OnError =>
          IF messageId = NoId /\ Trim(assistantBuffer) = <<>>
          THEN NothingDone
          ELSE /\ tracker'.status = "error"
               /\ creates' = creates
               /\ IF messageId = NoId
                  THEN UNCHANGED schedVars
                  ELSE /\ ScheduledEdit(TRUE)
                       /\ host'.pc = "flushing"
                       /\ fl'[host'.f].pc # "new"]_vars
  /\ [][Finalize =>
          IF messageId = NoId /\ Trim(assistantBuffer) = <<>> /\ tracker.status = "thinking"
          THEN NothingDone
          ELSE tracker'.status = "completed"]_vars

(* C12's case: onError() was skipped in a state where finalize() is not:    *)
(* no message (the create failed), a blank buffer, the status ToolCalling.  *)
C12_Witness ==
  /\ lastCall.op = "onError"
  /\ OnErrorSkips
  /\ ~FinalizeSkips
  /\ tracker.status = "tool-calling"
  /\ Len(creates) >= 1

\* The tracker and the event buffer after the events of the payload alone.
AfterEvents(payload) ==
  IF payload.events = <<>>
  THEN [tracker |-> tracker, text |-> assistantBufferState]
  ELSE ApplyEvents(tracker, assistantBufferState, payload.events, now)

\* The tracker after the one highest-priority path of the payload alone.
HighestPriorityPath(payload) ==
  IF payload.messages # <<>>
  THEN deliverState([payload EXCEPT !.events = <<>>, !.text = <<>>]).tracker
  ELSE IF payload.events # <<>>
  THEN deliverState([payload EXCEPT !.text = <<>>]).tracker
  ELSE deliverState(payload).tracker

(* C13 as stated: a deliver call mutates the tracker through only the       *)
(* highest-priority path the payload carries: messages, else events, else   *)
(* plain text.                                                              *)
C13_OnlyHighestPriorityPath ==
  [][\A payload \in ScenarioPayloads :
       deliver(payload) => tracker' = HighestPriorityPath(payload)]_vars

(* C13 amended: a deliver call first applies the verbose events, when the   *)
(* payload carries any, and then at most one of the two other paths: the    *)
(* canonical messages, else the plain text (ignored when messages exist).   *)
C13_EventsThenMessagesElseText ==
  [][\A payload \in ScenarioPayloads :
       deliver(payload) =>
         LET ev == AfterEvents(payload)
             buffer == IF payload.events # <<>> /\ ev.text # <<>>
                       THEN ev.text ELSE assistantBuffer
             nextStatus == inferStatusFromMessages(payload.messages)
         IN IF payload.messages # <<>>
            THEN tracker' = appendMessages(IF nextStatus # ""
                                           THEN setStatus(ev.tracker, nextStatus)
                                           ELSE ev.tracker,
                                           payload.messages, now)
            ELSE IF Trim(payload.text) # <<>>
            THEN tracker' = DeliverText(ev, buffer,
                                        splitToolSummaryLines(payload.text)).tracker
            ELSE tracker' = ev.tracker]_vars

(* C13's case: a payload with messages (tool call t1) and events (tool      *)
(* start t2) was delivered, and the timeline has an entry of each path.     *)
C13_Witness ==
  /\ lastCall.op = "deliver"
  /\ delivered = 1
  /\ EntriesOf(tracker.timeline, "t1") # {}
  /\ EntriesOf(tracker.timeline, "t2") # {}

(* C14: whenever an updateCardFeishu call fails, a schedule() or flush()    *)
(* call of the caller fails with it. schedule() returns before the publish  *)
(* starts to be awaited, so the failure can only reject a flush() call.     *)
C14_PublishFailureObserved ==
  [][(LoopPublishFail \/ FlushFail)
       => \E f \in Flushers : fl[f].pc # "rejected" /\ fl'[f].pc = "rejected"]_vars

(* The payload the claim lets a payload of another shape degrade to: its    *)
(* messages when every element is a message object, else none; its text     *)
(* when it is a string, else none.                                          *)
Degraded(raw) ==
  Payload(IF \A k \in DOMAIN raw.messages : raw.messages[k].shape = "object"
          THEN MessagesSeen(raw.messages) ELSE <<>>,
          raw.events,
          IF raw.textIsString THEN raw.text ELSE <<>>)

(* C15: deliver never raises on a payload of another shape (message lists   *)
(* with elements that lack a content sequence or are no objects, a text     *)
(* that is no string); it handles the payload by the next-priority path.    *)
C15_DeliverNeverRaises ==
  /\ [](host.pc # "threw")
  /\ [][\A raw \in MalformedPayloads :
          deliverRaw(raw) => tracker' = deliverState(Degraded(raw)).tracker]_vars

(* C16: an empty-content delivery (no messages, no events, text absent or   *)
(* whitespace-only) changes nothing: the tracker (status, timeline, draft   *)
(* answer), the text buffers, the message identifier and the scheduler      *)
(* (pending slot included) stay as they were, and no create or edit call    *)
(* is made.                                                                 *)
C16_EmptyDeliveryIsNoOp ==
  [][\A payload \in ScenarioPayloads :
       (EmptyContent(payload) /\ deliver(payload))
         => UNCHANGED <<tracker, assistantBuffer, assistantBufferState, messageId,
                        pending, inFlight, loop, creates, schedLog, pubLog>>]_vars

(* C16's case: an empty delivery was the second call, made after the first  *)
(* one had created the message and filled the timeline.                     *)
C16_Witness ==
  /\ lastCall = [op |-> "deliver", empty |-> TRUE]
  /\ delivered = 2
  /\ messageId # NoId
  /\ tracker.timeline # <<>>

\* `next` extends `prev`: prev is a prefix of next.
Extends(next, prev) == StartsWith(next, prev)

(* C17: mergeStreamText(P, P) = P; mergeStreamText(P, N) = N when N extends *)
(* P; mergeStreamText(P, N) = P when N is a strict prefix of P; and the     *)
(* merge applyVerboseEvent makes of an assistant-stream text N, not empty,  *)
(* into the buffer P is mergeStreamText(P, N), which becomes the draft.     *)
C17_MergeLaws ==
  /\ hist.op = "mergeStreamText" =>
       LET P == hist.batch[1]
           N == hist.batch[2]
       IN /\ N = P => assistantBuffer = P
          /\ Extends(N, P) => assistantBuffer = N
          /\ (Extends(P, N) /\ N # P) => assistantBuffer = P
          /\ tracker.draftAnswer = assistantBuffer
  /\ hist.op = "applyVerboseEvent" =>
       LET P == hist.batch[1]
           N == hist.batch[2]
       IN N # <<>> =>
            /\ assistantBufferState = mergeStreamText(P, N)
            /\ tracker.draftAnswer = mergeStreamText(P, N)
            /\ N = P => assistantBufferState = P
            /\ Extends(N, P) => assistantBufferState = N
            /\ (Extends(P, N) /\ N # P) => assistantBufferState = P

(* C17's case: a text that extends the buffered text "a" was merged by      *)
(* mergeStreamText and replaced it, after applyVerboseEvent had ignored an  *)
(* assistant-stream text that is a strict prefix of its buffered text.      *)
C17_Witness ==
  /\ hist = [op |-> "mergeStreamText", batch |-> <<<<"a">>, <<"a", "b">>>>, len |-> 0]
  /\ assistantBuffer = <<"a", "b">>
  /\ assistantBufferState = <<"b", "a">>
  /\ tracker.status = "thinking"

\* The controller as constructed: nothing delivered yet.
Fresh ==
  /\ delivered = 0
  /\ tracker = NewTracker
  /\ messageId = NoId
  /\ assistantBuffer = <<>>
  /\ assistantBufferState = <<>>

\* "Here are the results"
ResultsText ==
  <<"H", "e", "r", "e", " ", "a", "r", "e", " ", "t", "h", "e", " ", "r",
  "e", "s", "u", "l", "t", "s">>

\* The tool line of "web_search: query=foo", with the label of web_search.
WebSearchLine ==
  <<"call [", TOOL_NAME_LABELS["web_search"], "] tool:", " ",
    "q", "u", "e", "r", "y", "=", "f", "o", "o">>

(* C18 as stated: delivering {text: "web_search: query=foo\nHere are the    *)
(* results"} to a fresh controller leaves the status ToolCalling, a         *)
(* timeline of exactly one entry, of kind tool-call, labeled with the       *)
(* localized name of web_search, and the draft answer "Here are the         *)
(* results".                                                                *)
C18_WebSearchScenario ==
  [][(Fresh /\ deliver(WebSearchPayload)) =>
       /\ tracker'.status = "tool-calling"
       /\ Len(tracker'.timeline) = 1
       /\ tracker'.timeline[1].kind = "tool-call"
       /\ tracker'.timeline[1].content = WebSearchLine
       /\ tracker'.draftAnswer = ResultsText]_vars

(* C18 amended: the one timeline entry is of kind text (the tool line is    *)
(* appended as a text part), its content is the tool line labeled with the  *)
(* localized name of web_search, and the draft answer is the remainder      *)
(* after two line feeds, "\n\nHere are the results", which trims to "Here   *)
(* are the results".                                                        *)
C18_WebSearchTextEntry ==
  [][(Fresh /\ deliver(WebSearchPayload)) =>
       /\ tracker'.status = "tool-calling"
       /\ Len(tracker'.timeline) = 1
       /\ tracker'.timeline[1].kind = "text"
       /\ tracker'.timeline[1].toolUseId = NoId
       /\ tracker'.timeline[1].content = WebSearchLine
       /\ tracker'.draftAnswer = <<"\n", "\n">> \o ResultsText
       /\ Trim(tracker'.draftAnswer) = ResultsText
       /\ assistantBuffer' = tracker'.draftAnswer]_vars

\* C18's case: the payload was the first delivery, and its create is pending.
C18_Witness ==
  /\ delivered = 1
  /\ host.pc = "creating"
  /\ Len(tracker.timeline) = 1
  /\ tracker.timeline[1].content = WebSearchLine
  /\ Trim(tracker.draftAnswer) = ResultsText

(* C19: the assistant-stream events "Hello" and then "Hello world",         *)
(* delivered to a fresh controller in one payload or in two deliver calls,  *)
(* leave the draft answer "Hello world" (the longer text replaces the       *)
(* shorter one, it is not appended to it) and the status Thinking.          *)
C19_HelloThenHelloWorld ==
  /\ [][(Fresh /\ deliver(Payload(<<>>, <<AssistantEvent(Hello),
                                          AssistantEvent(HelloWorld)>>, <<>>)))
          => /\ tracker'.draftAnswer = HelloWorld
             /\ tracker'.status = "thinking"]_vars
  /\ [][(Fresh /\ deliver(Payload(<<>>, <<AssistantEvent(Hello)>>, <<>>)))
          => /\ tracker'.draftAnswer = Hello
             /\ assistantBufferState' = Hello]_vars
  /\ [][(/\ delivered = 1
         /\ assistantBufferState = Hello
         /\ deliver(Payload(<<>>, <<AssistantEvent(HelloWorld)>>, <<>>)))
          => /\ tracker'.draftAnswer = HelloWorld
             /\ assistantBuffer' = HelloWorld
             /\ tracker'.status = "thinking"]_vars

(* C19's case: "Hello" was delivered and created the message, "Hello world" *)
(* was delivered next and scheduled the edit that shows it.                 *)
C19_Witness ==
  /\ delivered = 2
  /\ messageId # NoId
  /\ creates[1].card.elements[Len(creates[1].card.elements)].content = Hello
  /\ tracker.draftAnswer = HelloWorld
  /\ tracker.status = "thinking"
  /\ Len(schedLog) = 1
  /\ schedLog[1].card.elements[Len(schedLog[1].card.elements)].content = HelloWorld

(* The entry repeats the final answer: it is a text entry whose content,    *)
(* with white space normalized, is the answer with white space normalized.  *)
RepeatsAnswer(entry, answer) ==
  /\ entry.kind = "text"
  /\ answer # <<>>
  /\ normalizeWhitespace(entry.content) = normalizeWhitespace(answer)

\* The entries of the timeline that do not repeat the final answer, in order.
Remaining(timeline, answer) ==
  SelectSeq(timeline, LAMBDA entry : ~RepeatsAnswer(entry, answer))

(* C20: in a terminal status (completed, canceled, error) the render state  *)
(* has for body the trimmed draft answer, or the placeholder when that is   *)
(* empty; its timeline is the tracker's without the text entries that       *)
(* repeat the final answer, every entry of another kind being kept; and     *)
(* the timeline panel is shown if and only if some entry remains.           *)
C20_TerminalRenderState ==
  isTerminalStatus(tracker.status) =>
    \A collapseTimeline \in BOOLEAN :
      LET state == buildRenderState(tracker, collapseTimeline)
          answer == Trim(tracker.draftAnswer)
          card == buildLarkCard(state)
      IN /\ state.body = IF answer # <<>> THEN answer ELSE <<"No final reply yet">>
         /\ state.finalAnswer = answer
         /\ state.timeline = Remaining(tracker.timeline, answer)
         /\ \A k \in DOMAIN tracker.timeline :
              tracker.timeline[k].kind # "text"
                => \E j \in DOMAIN state.timeline : state.timeline[j] = tracker.timeline[k]
         /\ state.showTimelinePanel <=> Len(state.timeline) >= 1
         /\ (\E k \in DOMAIN card.elements : card.elements[k].tag = "collapsible_panel")
              <=> Len(state.timeline) >= 1
         /\ card.elements[Len(card.elements)].content = state.body

(* C20's case: a completed run whose timeline has a text entry that repeats *)
(* the final answer, excluded, and a thinking entry with the same content   *)
(* and a tool call, both kept.                                              *)
C20_Witness ==
  /\ tracker.status = "completed"
  /\ \E k \in DOMAIN tracker.timeline :
       RepeatsAnswer(tracker.timeline[k], Trim(tracker.draftAnswer))
  /\ \E k \in DOMAIN tracker.timeline :
       /\ tracker.timeline[k].kind = "thinking"
       /\ tracker.timeline[k].content = Trim(tracker.draftAnswer)
  /\ \E k \in DOMAIN tracker.timeline : tracker.timeline[k].kind = "tool-call"
  /\ Len(buildRenderState(tracker, TRUE).timeline) = Len(tracker.timeline) - 1

\* The statuses that are not terminal.
NonTerminal == {"idle", "thinking", "tool-calling", "waiting-tool-result"}

(* C21: in every non-terminal status the render state does not show the    *)
(* timeline panel and has no final answer; its timeline is the tracker's,   *)
(* unfiltered; its body is the timeline markdown when not empty, else the   *)
(* raw draft answer when not empty, else the thinking placeholder; and the  *)
(* card built from it has exactly one element, the markdown block of the    *)
(* body, and no collapsible block.                                          *)
C21_NonTerminalRenderState ==
  tracker.status \in NonTerminal =>
    \A collapseTimeline \in BOOLEAN :
      LET state == buildRenderState(tracker, collapseTimeline)
          markdown == Join(FormatEntries(tracker.timeline), <<"\n">>)
          card == buildLarkCard(state)
      IN /\ ~state.showTimelinePanel
         /\ state.finalAnswer = <<>>
         /\ state.timeline = tracker.timeline
         /\ state.timelineMarkdown = markdown
         /\ state.body = IF markdown # <<>> THEN markdown
                         ELSE IF tracker.draftAnswer # <<>> THEN tracker.draftAnswer
                         ELSE <<"Thinking...">>
         /\ Len(card.elements) = 1
         /\ card.elements[1].tag = "markdown"
         /\ card.elements[1].content = state.body

(* C21's case: a run in status ToolCalling with a timeline and a draft      *)
(* answer that repeats a text entry: the body is the timeline markdown,     *)
(* the repeated entry included.                                             *)
C21_Witness ==
  /\ tracker.status = "tool-calling"
  /\ Len(tracker.timeline) >= 2
  /\ tracker.draftAnswer # <<>>
  /\ \E k \in DOMAIN tracker.timeline :
       RepeatsAnswer(tracker.timeline[k], Trim(tracker.draftAnswer))

\* The title of the card scheduled last.
LastScheduledTitle == schedLog[Len(schedLog)].card.header.title

(* C22: setStatus overwrites the status whatever it was, a terminal one     *)
(* included: finalize() and onError(), unless skipped, leave the status     *)
(* Completed and Error from any status, and a deliver call with content,    *)
(* made after finalize() left the status Completed, moves the tracker to a  *)
(* non-terminal status and schedules a card that shows that status.         *)
C22_StatusOverwritten ==
  /\ [][(Finalize /\ ~FinalizeSkips) => tracker'.status = "completed"]_vars
  /\ [][(OnError /\ ~OnErrorSkips) => tracker'.status = "error"]_vars
  /\ [][(/\ tracker.status = "completed"
         /\ lastCall.op = "finalize"
         /\ messageId # NoId
         /\ delivered' = delivered + 1
         /\ ~lastCall'.empty)
          => /\ tracker'.status \in NonTerminal
             /\ ScheduledEdit(FALSE)
             /\ LastScheduledTitle' = statusTitles[tracker'.status]]_vars

(* C22's case: the card of the Completed status was published by           *)
(* finalize(), and the delivery made next scheduled a card that shows a     *)
(* non-terminal status again.                                               *)
C22_Witness ==
  /\ lastCall = [op |-> "deliver", empty |-> FALSE]
  /\ delivered = 2
  /\ tracker.status \in NonTerminal
  /\ \E k \in DOMAIN pubLog :
       /\ pubLog[k] # Null
       /\ schedLog[pubLog[k]].card.header.title = statusTitles["completed"]
  /\ LastScheduledTitle = statusTitles[tracker.status]
  /\ ~failed

(* C23: every document handed to updateCardFeishu is a document, passed to  *)
(* an earlier schedule() call, and never the cleared (null) pending slot.   *)
C23_NeverPublishesNull ==
  \A k \in DOMAIN pubLog : pubLog[k] # Null /\ pubLog[k] \in DOMAIN schedLog

(* C24: whenever the pending slot holds a document a publish loop is        *)
(* active (inFlight is set), after every schedule() call and after every    *)
(* loop exit, the exit on a failed publish included; and the active loop    *)
(* is one that will take the slot: it waits on its interval timer or on a   *)
(* publish, after which it looks at the slot again.                         *)
C24_PendingImpliesLoop ==
  pending # Null => (inFlight /\ loop.pc \in {"timer", "publishing"})

(* C24's case: a publish of the loop failed while a newer document was      *)
(* pending, and the loop started again for it.                              *)
C24_Witness ==
  /\ failed
  /\ pending # Null
  /\ inFlight
  /\ loop.pc = "timer"
  /\ Len(pubLog) = 1

(* C25: once a tool-call entry of the timeline carries a duration, no       *)
(* appendMessages call removes it: the entry keeps its duration and its     *)
(* display content, also when the same tool call is appended again          *)
(* without its result.                                                      *)
C25_DurationKept ==
  [][hist'.op = "appendMessages" =>
       \A k \in DOMAIN tracker.timeline :
         (tracker.timeline[k].kind = "tool-call" /\ tracker.timeline[k].durationMs # NoNum)
           => /\ k \in DOMAIN tracker'.timeline
              /\ tracker'.timeline[k].durationMs = tracker.timeline[k].durationMs
              /\ tracker'.timeline[k].content = tracker.timeline[k].content]_vars

(* The dedup key of an entry: tool:<toolUseId> for a tool call with an id,  *)
(* else <kind>|<content>.                                                   *)
DedupKey(entry) ==
  IF entry.kind = "tool-call" /\ entry.toolUseId # NoId
  THEN <<"tool:", entry.toolUseId>>
  ELSE <<entry.kind, "|">> \o entry.content

(* C26: between resets the timeline is append-only in order: an             *)
(* appendMessages call never shortens it and leaves every existing entry    *)
(* at its position, with its dedup key (an entry that is no tool call with  *)
(* an id is left as it is); no entry has empty content; and no two entries  *)
(* have the same dedup key.                                                 *)
C26_TimelineAppendOnly ==
  /\ [][hist'.op = "appendMessages" =>
          /\ Len(tracker'.timeline) >= Len(tracker.timeline)
          /\ \A k \in DOMAIN tracker.timeline :
               /\ DedupKey(tracker'.timeline[k]) = DedupKey(tracker.timeline[k])
               /\ DedupKey(tracker.timeline[k])[1] # "tool:"
                    => tracker'.timeline[k] = tracker.timeline[k]]_vars
  /\ [](\A k \in DOMAIN tracker.timeline :
          /\ tracker.timeline[k].content # <<>>
          /\ \A j \in DOMAIN tracker.timeline :
               j # k => DedupKey(tracker.timeline[j]) # DedupKey(tracker.timeline[k]))

(* C26's case: an appendMessages call found entries on the timeline, among  *)
(* them a tool call with an id and a text entry, and appended behind them.  *)
C26_Witness ==
  /\ hist.op = "appendMessages"
  /\ hist.len >= 2
  /\ Len(tracker.timeline) > hist.len
  /\ \E k \in 1..hist.len : DedupKey(tracker.timeline[k])[1] = "tool:"
  /\ \E k \in 1..hist.len : tracker.timeline[k].kind = "text"
====
